---- MODULE Spec2Model ----
(***************************************************************************)
(* Model of src/server.js: an Express application with ten routes.  Six    *)
(* routes call a Mongoose model (User) over one connection opened at       *)
(* process start; four routes call an AWS S3 client.  Every handler is an  *)
(* async function with one await: it runs up to the collaborator call,     *)
(* suspends, and resumes with a value or a thrown error.                   *)
(*                                                                         *)
(* A request occupies a slot r.  pc[r] is the handler's position:          *)
(*   "idle"    no request has used the slot yet                            *)
(*   "await"   the handler issued its collaborator call and is suspended   *)
(*   "settled" the collaborator acted and the promise is settled           *)
(*   "done"    the continuation ran to the end of the handler              *)
(* trace[r] is what the handler did for the request, in program order:     *)
(* collaborator calls, log events and responses.                           *)
(*                                                                         *)
(* The stores are the collaborators' state: users is the User collection,  *)
(* objects the keys of each bucket.  A collaborator call either takes      *)
(* effect and returns, or throws and changes nothing.  Message texts are   *)
(* the source's, written without accents.                                  *)
(***************************************************************************)
EXTENDS Integers, Sequences, FiniteSets

\* Bounds of the model.
MaxUsers == 1
MaxInflight == 2

Slots == 1..MaxInflight

\* ---------------------------------------------------------------- inputs
\* A path id: BadId is a string Mongoose cannot cast to an ObjectId, the
\* others are well-formed ObjectIds.
BadId == 0
UserIds == 1..MaxUsers
PathIds == {BadId} \cup UserIds

Absent == "<absent>"
\* JSON bodies sent to POST/PUT /usuarios.  "#7" stands for the JSON number 7.
Bodies == { [nome |-> "Ana", email |-> "ana@x.com"], [nome |-> "#7", email |-> Absent] }

ExistingBuckets == {"my-bucket"}
BucketNames == ExistingBuckets \cup {"ghost"}
KeyOrder == <<"a.txt">>
Keys == {KeyOrder[i] : i \in 1..Len(KeyOrder)}
NoFile == "<no file>"

\* Error texts thrown by the collaborators.
CastError == "CastError: Cast to ObjectId failed"
BufferTimeout == "MongooseError: buffering timed out"
MongoNetworkError == "MongoNetworkError: connection closed"
NoSuchBucket == "NoSuchBucket: The specified bucket does not exist"
S3NetworkingError == "NetworkingError: socket hang up"
ConnectError == "MongooseServerSelectionError: connect ECONNREFUSED"

NoDoc == [id |-> 0, nome |-> Absent, email |-> Absent]

VARIABLES mongo, alive, bootLog, users, nextId, objects,
          pc, req, out, trace, flags, life, del200

vars == <<mongo, alive, bootLog, users, nextId, objects,
          pc, req, out, trace, flags, life, del200>>

store == <<users, objects>>
boot == <<mongo, alive, bootLog>>

\* ------------------------------------------------- events of one request
NoBody == [ctype |-> "none", shape |-> "none", error |-> "", message |-> "", data |-> <<>>]

\* s3.xxx(params).promise() / User.xxx(...): the handler issues one call.
CallEv(api) ==
    [ev |-> "call", name |-> api, status |-> 0, msg |-> "", ctx |-> "", err |-> "", body |-> NoBody]

\* logger.js: logInfo(message, req) appends an info event with the request context.
logInfo(msg, ctx) ==
    [ev |-> "log", name |-> "info", status |-> 0, msg |-> msg, ctx |-> ctx, err |-> "", body |-> NoBody]

\* logger.js: logError(message, req, error) appends an error event with the
\* request context and the underlying error.
logError(msg, ctx, err) ==
    [ev |-> "log", name |-> "error", status |-> 0, msg |-> msg, ctx |-> ctx, err |-> err, body |-> NoBody]

\* res.status(status).json(body) / res.status(status).send(text)
Res(status, body) ==
    [ev |-> "res", name |-> "", status |-> status, msg |-> "", ctx |-> "", err |-> "", body |-> body]

\* res.json({ error: msg })
JsonError(msg) == [ctype |-> "json", shape |-> "object", error |-> msg, message |-> "", data |-> <<>>]
\* res.json({ message: msg, ...data })
JsonMessage(msg, data) == [ctype |-> "json", shape |-> "object", error |-> "", message |-> msg, data |-> data]
\* res.json(document)
JsonObject(data) == [ctype |-> "json", shape |-> "object", error |-> "", message |-> "", data |-> data]
\* res.json(array)
JsonArray(data) == [ctype |-> "json", shape |-> "array", error |-> "", message |-> "", data |-> data]
\* res.send(string)
Text(msg) == [ctype |-> "text", shape |-> "none", error |-> "", message |-> msg, data |-> <<>>]

\* req.method and req.path as the logger receives them.
Ctx(op) ==
    CASE op = "probe"        -> "GET /mongodb/testar-conexao"
      [] op = "create"       -> "POST /usuarios"
      [] op = "list"         -> "GET /usuarios"
      [] op = "get"          -> "GET /usuarios/:id"
      [] op = "put"          -> "PUT /usuarios/:id"
      [] op = "delete"       -> "DELETE /usuarios/:id"
      [] op = "listBuckets"  -> "GET /buckets"
      [] op = "listObjects"  -> "GET /buckets/:bucketName"
      [] op = "upload"       -> "POST /buckets/:bucketName/upload"
      [] op = "deleteObject" -> "DELETE /buckets/:bucketName/file/:fileName"

DocOps == {"probe", "create", "list", "get", "put", "delete"}
ObjOps == {"listBuckets", "listObjects", "upload", "deleteObject"}

\* ------------------------------------------------ collaborator outcomes
Value(data, n) == [kind |-> "value", data |-> data, n |-> n, err |-> ""]
Throw(err) == [kind |-> "throw", data |-> <<>>, n |-> 0, err |-> err]
NoOut == [kind |-> "none", data |-> <<>>, n |-> 0, err |-> ""]

NoReq == [op |-> "none", id |-> BadId, body |-> [nome |-> Absent, email |-> Absent],
          doc |-> NoDoc, bucket |-> "", key |-> ""]
\* What the model remembers about a request, for stating the properties:
\* afterDel: the request arrived after a DELETE of its id had answered 200;
\* atCall: what the collaborator held for the request's target when it acted.
NoFlags == [afterDel |-> FALSE, atCall |-> "none"]

\* --------------------------------------------------- Mongoose model User
\* UserSchema: both paths are String; a number in the payload is cast.
CastString(v) == IF v = "#7" THEN "7" ELSE v

\* new User(req.body): the document gets its _id at construction.
NewUser(body, id) == [id |-> id, nome |-> CastString(body.nome), email |-> CastString(body.email)]

\* findByIdAndUpdate's $set: only the supplied paths overwrite.
ApplyUpdate(doc, body) ==
    [id |-> doc.id,
     nome |-> IF body.nome = Absent THEN doc.nome ELSE CastString(body.nome),
     email |-> IF body.email = Absent THEN doc.email ELSE CastString(body.email)]

RECURSIVE DocsFrom(_, _)
\* User.find(): every stored document, in store order.
DocsFrom(u, i) ==
    IF i > MaxUsers THEN <<>>
    ELSE (IF u[i] = NoDoc THEN <<>> ELSE <<u[i]>>) \o DocsFrom(u, i + 1)

\* User.findOne(): the first stored document, or null.
FirstDoc(u) == IF DocsFrom(u, 1) = <<>> THEN <<>> ELSE <<Head(DocsFrom(u, 1))>>

\* User.findById(id): the document, or null.
DocById(u, id) == IF u[id] = NoDoc THEN <<>> ELSE <<u[id]>>

\* ------------------------------------------------------------- S3 client
\* data.Buckets of listBuckets
BucketList == <<[Name |-> "my-bucket"]>>

\* data.Contents of listObjectsV2: one descriptor per key, in key order; an
\* empty bucket gives the empty list.
Contents(ks) ==
    LET sel == SelectSeq(KeyOrder, LAMBDA k : k \in ks)
    IN  [i \in 1..Len(sel) |-> [Key |-> sel[i]]]

\* --------------------------------------- handlers: the code after the await
\* GET /mongodb/testar-conexao
TestarConexaoThen(q, o) ==
    IF o.kind = "throw"
    THEN <<logError("Erro no teste MongoDB", Ctx(q.op), o.err),
           Res(500, Text("Erro na conexao com o MongoDB."))>>
    ELSE <<logInfo("Teste conexao MongoDB OK", Ctx(q.op)),
           IF o.data # <<>>
           THEN Res(200, Text("Conexao com MongoDB OK - Usuario encontrado."))
           ELSE Res(200, Text("Conexao com MongoDB OK - Nenhum usuario encontrado."))>>

\* PostUsuariosThen answering with req.body instead of the saved document.
PostUsuariosThenEchoBody(q, o) ==
    IF o.kind = "throw"
    THEN <<logError("Erro ao criar usuario", Ctx(q.op), o.err),
           Res(500, JsonError("Erro ao criar usuario."))>>
    ELSE <<logInfo("Usuario criado", Ctx(q.op)),
           Res(201, JsonObject(<<[id |-> q.doc.id, nome |-> q.body.nome, email |-> q.body.email]>>))>>

\* POST /usuarios
PostUsuariosThen(q, o) ==
    IF o.kind = "throw"
    THEN <<logError("Erro ao criar usuario", Ctx(q.op), o.err),
           Res(500, JsonError("Erro ao criar usuario."))>>
    ELSE <<logInfo("Usuario criado", Ctx(q.op)), Res(201, JsonObject(<<q.doc>>))>>

\* GET /usuarios
GetUsuariosThen(q, o) ==
    IF o.kind = "throw"
    THEN <<logError("Erro ao listar usuarios", Ctx(q.op), o.err),
           Res(500, JsonError("Erro ao listar usuarios."))>>
    ELSE <<Res(200, JsonArray(o.data))>>

\* GetUsuarioThen without the `return` in front of the 404 response.
GetUsuarioThenNoReturn(q, o) ==
    IF o.kind = "throw"
    THEN <<logError("Erro ao buscar usuario", Ctx(q.op), o.err),
           Res(500, JsonError("Erro ao buscar usuario."))>>
    ELSE IF o.data = <<>>
         THEN <<Res(404, JsonError("Usuario nao encontrado.")), Res(200, JsonObject(o.data))>>
         ELSE <<Res(200, JsonObject(o.data))>>

\* GET /usuarios/:id
GetUsuarioThen(q, o) ==
    IF o.kind = "throw"
    THEN <<logError("Erro ao buscar usuario", Ctx(q.op), o.err),
           Res(500, JsonError("Erro ao buscar usuario."))>>
    ELSE IF o.data = <<>>
         THEN <<Res(404, JsonError("Usuario nao encontrado."))>>
         ELSE <<Res(200, JsonObject(o.data))>>

\* PUT /usuarios/:id
PutUsuarioThen(q, o) ==
    IF o.kind = "throw"
    THEN <<logError("Erro ao atualizar usuario", Ctx(q.op), o.err),
           Res(500, JsonError("Erro ao atualizar usuario."))>>
    ELSE IF o.data = <<>>
         THEN <<Res(404, JsonError("Usuario nao encontrado."))>>
         ELSE <<Res(200, JsonObject(o.data))>>

\* DeleteUsuarioThen without the deletedCount test.
DeleteUsuarioThenNoCheck(q, o) ==
    IF o.kind = "throw"
    THEN <<logError("Erro ao remover usuario", Ctx(q.op), o.err),
           Res(500, JsonError("Erro ao remover usuario."))>>
    ELSE <<Res(200, JsonMessage("Usuario removido com sucesso.", <<>>))>>

\* DELETE /usuarios/:id
DeleteUsuarioThen(q, o) ==
    IF o.kind = "throw"
    THEN <<logError("Erro ao remover usuario", Ctx(q.op), o.err),
           Res(500, JsonError("Erro ao remover usuario."))>>
    ELSE IF o.n = 0
         THEN <<Res(404, JsonError("Usuario nao encontrado."))>>
         ELSE <<Res(200, JsonMessage("Usuario removido com sucesso.", <<>>))>>

\* GET /buckets
GetBucketsThen(q, o) ==
    IF o.kind = "throw"
    THEN <<logError("Erro ao listar buckets", Ctx(q.op), o.err),
           Res(500, JsonError("Erro ao listar buckets."))>>
    ELSE <<Res(200, JsonArray(o.data))>>

\* GetBucketThen mapping the store's NoSuchBucket to a 404.
GetBucketThenNotFound(q, o) ==
    IF o.kind = "throw"
    THEN IF o.err = NoSuchBucket
         THEN <<logError("Erro ao listar objetos", Ctx(q.op), o.err),
                Res(404, JsonError("Bucket nao encontrado."))>>
         ELSE <<logError("Erro ao listar objetos", Ctx(q.op), o.err),
                Res(500, JsonError("Erro ao listar objetos."))>>
    ELSE <<Res(200, JsonArray(o.data))>>

\* GET /buckets/:bucketName
GetBucketThen(q, o) ==
    IF o.kind = "throw"
    THEN <<logError("Erro ao listar objetos", Ctx(q.op), o.err),
           Res(500, JsonError("Erro ao listar objetos."))>>
    ELSE <<Res(200, JsonArray(o.data))>>

\* POST /buckets/:bucketName/upload, with a file
UploadThen(q, o) ==
    IF o.kind = "throw"
    THEN <<logError("Erro no upload", Ctx(q.op), o.err),
           Res(500, JsonError("Erro ao enviar arquivo."))>>
    ELSE <<Res(200, JsonMessage("Upload concluido.", o.data))>>

\* UploadBegin without the test of req.file.
UploadBeginNoCheck(file) == <<CallEv("s3.upload")>>

\* POST /buckets/:bucketName/upload: the code before the try block
UploadBegin(file) ==
    IF file = NoFile
    THEN <<Res(400, JsonError("Nenhum arquivo enviado."))>>
    ELSE <<CallEv("s3.upload")>>

\* DeleteFileThen answering with the caught error's message.
DeleteFileThenLeaks(q, o) ==
    IF o.kind = "throw"
    THEN <<logError("Erro ao remover arquivo", Ctx(q.op), o.err), Res(500, JsonError(o.err))>>
    ELSE <<Res(200, JsonMessage("Arquivo removido.", <<>>))>>

\* DELETE /buckets/:bucketName/file/:fileName
DeleteFileThen(q, o) ==
    IF o.kind = "throw"
    THEN <<logError("Erro ao remover arquivo", Ctx(q.op), o.err),
           Res(500, JsonError("Erro ao remover arquivo."))>>
    ELSE <<Res(200, JsonMessage("Arquivo removido.", <<>>))>>

\* The continuation of the handler bound to q.op.
Then(q, o) ==
    CASE q.op = "probe"        -> TestarConexaoThen(q, o)
      [] q.op = "create"       -> PostUsuariosThen(q, o)
      [] q.op = "list"         -> GetUsuariosThen(q, o)
      [] q.op = "get"          -> GetUsuarioThen(q, o)
      [] q.op = "put"          -> PutUsuarioThen(q, o)
      [] q.op = "delete"       -> DeleteUsuarioThen(q, o)
      [] q.op = "listBuckets"  -> GetBucketsThen(q, o)
      [] q.op = "listObjects"  -> GetBucketThen(q, o)
      [] q.op = "upload"       -> UploadThen(q, o)
      [] q.op = "deleteObject" -> DeleteFileThen(q, o)

\* ---------------------------------------------------- reading a trace
ResEvents(t) == SelectSeq(t, LAMBDA e : e.ev = "res")
CallEvents(t) == SelectSeq(t, LAMBDA e : e.ev = "call")
ErrorLogs(t) == SelectSeq(t, LAMBDA e : e.ev = "log" /\ e.name = "error")
Status(t) == ResEvents(t)[1].status
Body(t) == ResEvents(t)[1].body

\* ------------------------------------------------------------- Init
Init ==
    /\ mongo = "connecting"
    /\ alive = TRUE
    /\ bootLog = <<>>
    /\ users = [i \in UserIds |-> NoDoc]
    /\ nextId = 1
    /\ objects = [b \in ExistingBuckets |-> {}]
    /\ pc = [r \in Slots |-> "idle"]
    /\ req = [r \in Slots |-> NoReq]
    /\ out = [r \in Slots |-> NoOut]
    /\ trace = [r \in Slots |-> <<>>]
    /\ flags = [r \in Slots |-> NoFlags]
    /\ life = [i \in UserIds |-> "new"]
    /\ del200 = [i \in UserIds |-> 0]

\* ------------------------------------------- mongoose.connect at startup
ConnectOk ==
    /\ mongo = "connecting"
    /\ mongo' = "up"
    /\ bootLog' = Append(bootLog, logInfo("MongoDB conectado", ""))
    /\ UNCHANGED <<alive, users, nextId, objects, pc, req, out, trace, flags, life, del200>>

\* ConnectFail with a catch callback that ends the process.
ConnectFailExit ==
    /\ mongo = "connecting"
    /\ mongo' = "down"
    /\ bootLog' = Append(bootLog, logError("Erro ao conectar MongoDB", "", ConnectError))
    /\ alive' = FALSE
    /\ UNCHANGED <<users, nextId, objects, pc, req, out, trace, flags, life, del200>>

\* The catch callback logs and returns: the process keeps running.
ConnectFail ==
    /\ mongo = "connecting"
    /\ mongo' = "down"
    /\ bootLog' = Append(bootLog, logError("Erro ao conectar MongoDB", "", ConnectError))
    /\ alive' = alive
    /\ UNCHANGED <<users, nextId, objects, pc, req, out, trace, flags, life, del200>>

\* ------------------------- a request arrives: the handler up to its await
Begin(r, q, t, f) ==
    /\ alive
    /\ pc[r] \in {"idle", "done"}
    /\ req' = [req EXCEPT ![r] = q]
    /\ trace' = [trace EXCEPT ![r] = t]
    /\ out' = [out EXCEPT ![r] = NoOut]
    /\ flags' = [flags EXCEPT ![r] = f]
    /\ pc' = [pc EXCEPT ![r] = IF CallEvents(t) = <<>> THEN "done" ELSE "await"]

AfterDel(id) == [afterDel |-> id \in UserIds /\ del200[id] >= 1, atCall |-> "none"]

TestarConexao(r) ==
    /\ Begin(r, [NoReq EXCEPT !.op = "probe"], <<CallEv("User.findOne")>>, NoFlags)
    /\ UNCHANGED <<boot, store, nextId, life, del200>>

PostUsuarios(r, body) ==
    /\ nextId <= MaxUsers
    /\ Begin(r, [NoReq EXCEPT !.op = "create", !.body = body, !.doc = NewUser(body, nextId)],
             <<CallEv("user.save")>>, NoFlags)
    /\ nextId' = nextId + 1
    /\ UNCHANGED <<boot, store, life, del200>>

GetUsuarios(r) ==
    /\ Begin(r, [NoReq EXCEPT !.op = "list"], <<CallEv("User.find")>>, NoFlags)
    /\ UNCHANGED <<boot, store, nextId, life, del200>>

GetUsuario(r, id) ==
    /\ Begin(r, [NoReq EXCEPT !.op = "get", !.id = id], <<CallEv("User.findById")>>, AfterDel(id))
    /\ UNCHANGED <<boot, store, nextId, life, del200>>

PutUsuario(r, id, body) ==
    /\ Begin(r, [NoReq EXCEPT !.op = "put", !.id = id, !.body = body],
             <<CallEv("User.findByIdAndUpdate")>>, NoFlags)
    /\ UNCHANGED <<boot, store, nextId, life, del200>>

DeleteUsuario(r, id) ==
    /\ Begin(r, [NoReq EXCEPT !.op = "delete", !.id = id], <<CallEv("User.deleteOne")>>, AfterDel(id))
    /\ UNCHANGED <<boot, store, nextId, life, del200>>

GetBuckets(r) ==
    /\ Begin(r, [NoReq EXCEPT !.op = "listBuckets"], <<CallEv("s3.listBuckets")>>, NoFlags)
    /\ UNCHANGED <<boot, store, nextId, life, del200>>

GetBucket(r, b) ==
    /\ Begin(r, [NoReq EXCEPT !.op = "listObjects", !.bucket = b], <<CallEv("s3.listObjectsV2")>>, NoFlags)
    /\ UNCHANGED <<boot, store, nextId, life, del200>>

Upload(r, b, file) ==
    /\ Begin(r, [NoReq EXCEPT !.op = "upload", !.bucket = b, !.key = file], UploadBegin(file), NoFlags)
    /\ UNCHANGED <<boot, store, nextId, life, del200>>

DeleteFile(r, b, k) ==
    /\ Begin(r, [NoReq EXCEPT !.op = "deleteObject", !.bucket = b, !.key = k],
             <<CallEv("s3.deleteObject")>>, NoFlags)
    /\ UNCHANGED <<boot, store, nextId, life, del200>>

\* ------------------------------------- the collaborator acts on the call
\* What an operation on the connection can give: buffered while the initial
\* connection is pending (the action waits), a buffering timeout once the
\* initial connection has failed, else the value or a network error.
MongoOutcomes(v) ==
    IF mongo = "down" THEN {Throw(BufferTimeout)} ELSE {v, Throw(MongoNetworkError)}

\* What an S3 call on bucket b can give.
S3Outcomes(b, v) ==
    IF b \in ExistingBuckets THEN {v, Throw(S3NetworkingError)}
    ELSE {Throw(NoSuchBucket), Throw(S3NetworkingError)}

Settle(r, o) ==
    /\ out' = [out EXCEPT ![r] = o]
    /\ pc' = [pc EXCEPT ![r] = "settled"]
    /\ UNCHANGED <<boot, req, trace, nextId, del200>>

Pending(r, op) == pc[r] = "await" /\ req[r].op = op

\* UpdateById with { upsert: true }.
UpdateByIdUpsert(u, id, body) ==
    IF u[id] = NoDoc THEN [u EXCEPT ![id] = ApplyUpdate([NoDoc EXCEPT !.id = id], body)]
    ELSE [u EXCEPT ![id] = ApplyUpdate(u[id], body)]

\* findByIdAndUpdate(id, body, { new: true }): no upsert.
UpdateById(u, id, body) ==
    IF u[id] = NoDoc THEN u ELSE [u EXCEPT ![id] = ApplyUpdate(u[id], body)]

\* deleteOne({ _id: id })
DeleteById(u, id) == [u EXCEPT ![id] = NoDoc]

\* DeletedCount that reports a match whether or not a document was removed.
DeletedCountAlwaysOne(u, id) == 1

\* deletedCount of deleteOne({ _id: id })
DeletedCount(u, id) == IF u[id] = NoDoc THEN 0 ELSE 1

\* s3.upload: the key is the file's original name; an existing key is overwritten.
PutObject(objs, b, k) == [objs EXCEPT ![b] = @ \cup {k}]

\* RemoveObject that acknowledges and removes nothing.
RemoveObjectNoop(objs, b, k) == objs

\* s3.deleteObject: succeeds whether or not the key exists.
RemoveObject(objs, b, k) == [objs EXCEPT ![b] = @ \ {k}]

FindOne(r) ==
    /\ Pending(r, "probe")
    /\ mongo # "connecting"
    /\ \E o \in MongoOutcomes(Value(FirstDoc(users), 0)) : Settle(r, o)
    /\ UNCHANGED <<store, flags, life>>

Save(r) ==
    /\ Pending(r, "create")
    /\ mongo # "connecting"
    /\ \E o \in MongoOutcomes(Value(<<req[r].doc>>, 0)) :
          /\ Settle(r, o)
          /\ IF o.kind = "value"
             THEN /\ users' = [users EXCEPT ![req[r].doc.id] = req[r].doc]
                  /\ life' = [life EXCEPT ![req[r].doc.id] = "stored"]
             ELSE UNCHANGED <<users, life>>
    /\ UNCHANGED <<objects, flags>>

Find(r) ==
    /\ Pending(r, "list")
    /\ mongo # "connecting"
    /\ \E o \in MongoOutcomes(Value(DocsFrom(users, 1), 0)) : Settle(r, o)
    /\ UNCHANGED <<store, flags, life>>

FindById(r) ==
    /\ Pending(r, "get")
    /\ IF req[r].id = BadId
       THEN /\ Settle(r, Throw(CastError))
            /\ UNCHANGED flags
       ELSE /\ mongo # "connecting"
            /\ \E o \in MongoOutcomes(Value(DocById(users, req[r].id), 0)) : Settle(r, o)
            /\ flags' = [flags EXCEPT ![r].atCall = life[req[r].id]]
    /\ UNCHANGED <<store, life>>

FindByIdAndUpdate(r) ==
    /\ Pending(r, "put")
    /\ IF req[r].id = BadId
       THEN /\ Settle(r, Throw(CastError))
            /\ UNCHANGED <<users, life, flags>>
       ELSE /\ mongo # "connecting"
            /\ flags' = [flags EXCEPT ![r].atCall = life[req[r].id]]
            /\ LET id == req[r].id
                   u2 == UpdateById(users, id, req[r].body)
               IN  \E o \in MongoOutcomes(Value(DocById(u2, id), 0)) :
                      /\ Settle(r, o)
                      /\ IF o.kind = "value"
                         THEN /\ users' = u2
                              /\ life' = IF u2[id] # NoDoc THEN [life EXCEPT ![id] = "updated"] ELSE life
                         ELSE UNCHANGED <<users, life>>
    /\ UNCHANGED objects

DeleteOne(r) ==
    /\ Pending(r, "delete")
    /\ IF req[r].id = BadId
       THEN /\ Settle(r, Throw(CastError))
            /\ UNCHANGED <<users, life, flags>>
       ELSE /\ mongo # "connecting"
            /\ flags' = [flags EXCEPT ![r].atCall = life[req[r].id]]
            /\ LET id == req[r].id
               IN  \E o \in MongoOutcomes(Value(<<>>, DeletedCount(users, id))) :
                      /\ Settle(r, o)
                      /\ IF o.kind = "value"
                         THEN /\ users' = DeleteById(users, id)
                              /\ life' = IF users[id] # NoDoc THEN [life EXCEPT ![id] = "deleted"] ELSE life
                         ELSE UNCHANGED <<users, life>>
    /\ UNCHANGED objects

ListBuckets(r) ==
    /\ Pending(r, "listBuckets")
    /\ \E o \in {Value(BucketList, 0), Throw(S3NetworkingError)} : Settle(r, o)
    /\ UNCHANGED <<store, flags, life>>

\* What the object store holds for bucket b.
BucketState(b) ==
    IF b \notin ExistingBuckets THEN "missing"
    ELSE IF objects[b] = {} THEN "empty" ELSE "nonempty"

ListObjectsV2(r) ==
    /\ Pending(r, "listObjects")
    /\ LET b == req[r].bucket
           v == IF b \in ExistingBuckets THEN Value(Contents(objects[b]), 0) ELSE NoOut
       IN  /\ \E o \in S3Outcomes(b, v) : Settle(r, o)
           /\ flags' = [flags EXCEPT ![r].atCall = BucketState(b)]
    /\ UNCHANGED <<store, life>>

S3Upload(r) ==
    /\ Pending(r, "upload")
    /\ LET b == req[r].bucket
           k == req[r].key
       IN  \E o \in S3Outcomes(b, Value(<<[Key |-> k, Bucket |-> b]>>, 0)) :
              /\ Settle(r, o)
              /\ objects' = IF o.kind = "value" THEN PutObject(objects, b, k) ELSE objects
    /\ UNCHANGED <<users, flags, life>>

S3DeleteObject(r) ==
    /\ Pending(r, "deleteObject")
    /\ LET b == req[r].bucket
           k == req[r].key
       IN  /\ \E o \in S3Outcomes(b, Value(<<>>, 0)) :
                 /\ Settle(r, o)
                 /\ objects' = IF o.kind = "value" THEN RemoveObject(objects, b, k) ELSE objects
           /\ flags' = [flags EXCEPT ![r].atCall =
                           IF b \notin ExistingBuckets THEN "missing"
                           ELSE IF k \in objects[b] THEN "present" ELSE "absent"]
    /\ UNCHANGED <<users, life>>

\* ------------------- the promise settled: the handler runs to its end
Resume(r) ==
    /\ pc[r] = "settled"
    /\ LET t == trace[r] \o Then(req[r], out[r])
       IN  /\ trace' = [trace EXCEPT ![r] = t]
           /\ del200' = IF req[r].op = "delete" /\ Status(t) = 200 /\ req[r].id \in UserIds
                        THEN [del200 EXCEPT ![req[r].id] = IF @ >= 2 THEN 2 ELSE @ + 1]
                        ELSE del200
    /\ pc' = [pc EXCEPT ![r] = "done"]
    /\ UNCHANGED <<boot, store, nextId, req, out, flags, life>>

Next ==
    \/ ConnectOk
    \/ ConnectFail
    \/ \E r \in Slots : TestarConexao(r)
    \/ \E r \in Slots, body \in Bodies : PostUsuarios(r, body)
    \/ \E r \in Slots : GetUsuarios(r)
    \/ \E r \in Slots, id \in PathIds : GetUsuario(r, id)
    \/ \E r \in Slots, id \in PathIds, body \in Bodies : PutUsuario(r, id, body)
    \/ \E r \in Slots, id \in PathIds : DeleteUsuario(r, id)
    \/ \E r \in Slots : GetBuckets(r)
    \/ \E r \in Slots, b \in BucketNames : GetBucket(r, b)
    \/ \E r \in Slots, b \in BucketNames, file \in Keys \cup {NoFile} : Upload(r, b, file)
    \/ \E r \in Slots, b \in BucketNames, k \in Keys : DeleteFile(r, b, k)
    \/ \E r \in Slots : FindOne(r)
    \/ \E r \in Slots : Save(r)
    \/ \E r \in Slots : Find(r)
    \/ \E r \in Slots : FindById(r)
    \/ \E r \in Slots : FindByIdAndUpdate(r)
    \/ \E r \in Slots : DeleteOne(r)
    \/ \E r \in Slots : ListBuckets(r)
    \/ \E r \in Slots : ListObjectsV2(r)
    \/ \E r \in Slots : S3Upload(r)
    \/ \E r \in Slots : S3DeleteObject(r)
    \/ \E r \in Slots : Resume(r)

Spec == Init /\ [][Next]_vars

\* ================================================================ claims
Done(r) == pc[r] = "done"
Ok(r) == out[r].kind = "value"
Failed(r) == out[r].kind = "throw"
Responses(r) == Len(ResEvents(trace[r]))
Answered(r, status) == Done(r) /\ Status(trace[r]) = status
\* The step in which slot r takes a new request.
Arrives(r) == pc[r] \in {"idle", "done"} /\ <<pc[r], req[r], trace[r]>>' # <<pc[r], req[r], trace[r]>>
\* The step in which the collaborator acts on r's call.
Acts(r, op) == Pending(r, op) /\ pc'[r] = "settled"
\* The step in which r's handler resumes and finishes.
Finishes(r, op) == pc[r] = "settled" /\ req[r].op = op /\ pc'[r] = "done"

\* C1: every handler sends exactly one response per request: none while the
\* collaborator call is pending, exactly one once the handler has finished,
\* never two, whatever the collaborator gave (value, not found, thrown error)
\* and on the 400 early return.
C1_ExactlyOneResponse ==
    \A r \in Slots :
        /\ Responses(r) <= 1
        /\ pc[r] \in {"await", "settled"} => Responses(r) = 0
        /\ Done(r) => Responses(r) = 1

C1_Witness ==
    \E r, s \in Slots :
        /\ Done(r) /\ req[r].op = "get" /\ Ok(r) /\ Status(trace[r]) = 404 /\ Responses(r) = 1
        /\ Done(s) /\ req[s].op = "upload" /\ Failed(s) /\ Status(trace[s]) = 500 /\ Responses(s) = 1

\* C2: when the store accepts the save, POST /usuarios answers 201 with the
\* saved record, which carries the id assigned to it; a GET /usuarios/:id for
\* that id that reads the store before any update or delete of the id answers
\* 200 with the same nome and email as the 201 response.
C2_CreateThenGet ==
    \A p \in Slots :
        (Done(p) /\ req[p].op = "create" /\ Ok(p)) =>
            /\ Status(trace[p]) = 201
            /\ Body(trace[p]).shape = "object"
            /\ Len(Body(trace[p]).data) = 1
            /\ Body(trace[p]).data[1].id \in UserIds
            /\ \A g \in Slots :
                  (/\ Done(g) /\ req[g].op = "get" /\ Ok(g)
                   /\ req[g].id = Body(trace[p]).data[1].id
                   /\ flags[g].atCall = "stored") =>
                      /\ Status(trace[g]) = 200
                      /\ Len(Body(trace[g]).data) = 1
                      /\ Body(trace[g]).data[1].nome = Body(trace[p]).data[1].nome
                      /\ Body(trace[g]).data[1].email = Body(trace[p]).data[1].email

C2_Witness ==
    \E p, g \in Slots :
        /\ Answered(p, 201) /\ req[p].op = "create" /\ req[p].body.nome = "#7"
        /\ Answered(g, 200) /\ req[g].op = "get" /\ req[g].id = req[p].doc.id
        /\ flags[g].atCall = "stored"
        /\ Body(trace[g]).data[1].nome = "7"

\* C3: with the store answering, a DELETE /usuarios/:id that finds the user
\* answers 200, and every DELETE or GET for that id that arrives after a
\* DELETE of it answered 200 answers 404.
C3_DeleteTwice ==
    \A r \in Slots :
        (Done(r) /\ Ok(r) /\ req[r].id \in UserIds) =>
            /\ (req[r].op = "delete" /\ flags[r].atCall \in {"stored", "updated"}) =>
                  Status(trace[r]) = 200
            /\ (req[r].op \in {"get", "delete"} /\ flags[r].afterDel) =>
                  Status(trace[r]) = 404

C3_Witness ==
    \E d, g \in Slots :
        /\ req[d].id \in UserIds /\ req[g].id = req[d].id /\ del200[req[d].id] = 1
        /\ Answered(d, 404) /\ req[d].op = "delete" /\ Ok(d) /\ flags[d].afterDel
        /\ Answered(g, 404) /\ req[g].op = "get" /\ Ok(g) /\ flags[g].afterDel

\* C4: a PUT /usuarios/:id whose well-formed id matches no stored user leaves
\* the user collection as it was when the store acts on it, and the handler
\* then answers 404 without touching the collection.
C4_PutMissing ==
    [][\A r \in Slots :
          /\ (Acts(r, "put") /\ req[r].id \in UserIds /\ users[req[r].id] = NoDoc) =>
                users' = users
          /\ (Finishes(r, "put") /\ Ok(r) /\ flags[r].atCall \in {"new", "deleted"}) =>
                (Status(trace'[r]) = 404 /\ users' = users)]_vars

C4_Witness ==
    \E r \in Slots :
        /\ Answered(r, 404) /\ req[r].op = "put" /\ Ok(r) /\ req[r].id \in UserIds
        /\ flags[r].atCall = "deleted"

\* C5: an upload request without a file is answered at once with 400 and the
\* 'no file sent' error, issues no call to the object store, and leaves every
\* bucket as it was.
\* (A request carries no file, or one file in the field 'file'.)
C5_UploadNoFile ==
    [][\A r \in Slots :
          (Arrives(r) /\ req'[r].op = "upload" /\ req'[r].key = NoFile) =>
              /\ trace'[r] = <<Res(400, JsonError("Nenhum arquivo enviado."))>>
              /\ CallEvents(trace'[r]) = <<>>
              /\ pc'[r] = "done"
              /\ objects' = objects]_vars

C5_Witness ==
    \E r \in Slots :
        /\ Answered(r, 400) /\ req[r].op = "upload" /\ req[r].key = NoFile
        /\ req[r].bucket \in ExistingBuckets /\ objects[req[r].bucket] # {}

\* The response body carries the caught error's text.
Leaks(body, err) == err \in {body.error, body.message} \/ body.data # <<>>

\* The failure path: one call, then an error log event with the request's
\* context and the caught error, then a 500 whose body leaks nothing.
LogThen500(r) ==
    LET t == trace[r]
    IN  /\ Len(t) = 3
        /\ t[1].ev = "call"
        /\ t[2].ev = "log" /\ t[2].name = "error"
        /\ t[2].ctx = Ctx(req[r].op) /\ t[2].err = out[r].err /\ t[2].err # ""
        /\ t[3].ev = "res" /\ t[3].status = 500
        /\ ~Leaks(t[3].body, out[r].err)
        /\ t[3].body.error # "" \/ t[3].body.message # ""

C7_DeleteObjectIdempotent ==
    [][/\ \A r \in Slots :
             /\ (Acts(r, "deleteObject") /\ out'[r].kind = "value") =>
                   req[r].key \notin objects'[req[r].bucket]
             /\ (Finishes(r, "deleteObject") /\ Ok(r)) => Status(trace'[r]) = 200
       /\ \A b \in ExistingBuckets, k \in Keys :
             (k \notin objects[b] /\ k \in objects'[b]) =>
                \E u \in Slots : Acts(u, "upload") /\ req[u].bucket = b /\ req[u].key = k]_vars

C7_Witness ==
    \E r, s \in Slots :
        /\ r # s /\ req[r].bucket = req[s].bucket /\ req[r].key = req[s].key
        /\ Answered(r, 200) /\ req[r].op = "deleteObject" /\ flags[r].atCall = "present"
        /\ Answered(s, 200) /\ req[s].op = "deleteObject" /\ flags[s].atCall = "absent"
        /\ req[r].key \notin objects[req[r].bucket]

\* C8: when listObjectsV2 returns for an existing bucket that holds no object,
\* GET /buckets/:bucketName answers 200 with an empty JSON array; for a bucket
\* that does not exist it answers 500, never 404.
C8_ListEmptyBucket ==
    \A r \in Slots :
        (Done(r) /\ req[r].op = "listObjects") =>
            /\ (Ok(r) /\ flags[r].atCall = "empty") =>
                  (Status(trace[r]) = 200 /\ Body(trace[r]) = JsonArray(<<>>))
            /\ flags[r].atCall = "missing" => Status(trace[r]) = 500

C8_Witness ==
    \E r, s \in Slots :
        /\ Answered(r, 200) /\ req[r].op = "listObjects" /\ flags[r].atCall = "empty"
        /\ Body(trace[r]).shape = "array" /\ Body(trace[r]).data = <<>>
        /\ Answered(s, 500) /\ req[s].op = "listObjects" /\ flags[s].atCall = "missing"
        /\ out[s].err = NoSuchBucket

\* C9: once the initial connection has failed, the failure is in the log, the
\* process is still serving, every finished request to a document-store route
\* was answered 500, and an object-store request whose call succeeded was
\* answered 200.
C9_ConnectFailure ==
    mongo = "down" =>
        /\ alive
        /\ bootLog = <<logError("Erro ao conectar MongoDB", "", ConnectError)>>
        /\ \A r \in Slots :
              /\ (Done(r) /\ req[r].op \in DocOps) => (Failed(r) /\ Status(trace[r]) = 500)
              /\ (Done(r) /\ req[r].op \in ObjOps /\ Ok(r)) => Status(trace[r]) = 200

C9_Witness ==
    \E r, s \in Slots :
        /\ mongo = "down" /\ alive
        /\ Answered(r, 500) /\ req[r].op = "list" /\ out[r].err = BufferTimeout
        /\ Answered(s, 200) /\ req[s].op = "upload" /\ Ok(s)

\* C10: for each stored user at most one DELETE answers 200; of two deletes
\* of the same id the one that finds the user answers 200 and the other 404;
\* and once a DELETE has answered 200 the user is absent from the collection,
\* whatever PUT ran beside it.
C10_ConcurrentDelete ==
    \A id \in UserIds :
        /\ del200[id] <= 1
        /\ del200[id] = 1 => users[id] = NoDoc
        /\ \A r, s \in Slots :
              (/\ r # s /\ Done(r) /\ Done(s) /\ Ok(r) /\ Ok(s)
               /\ req[r].op = "delete" /\ req[s].op = "delete"
               /\ req[r].id = id /\ req[s].id = id) =>
                  /\ ~(Status(trace[r]) = 200 /\ Status(trace[s]) = 200)
                  /\ flags[r].atCall \in {"stored", "updated"} =>
                        (Status(trace[r]) = 200 /\ Status(trace[s]) = 404)

C10_Witness ==
    \E r, s \in Slots :
        /\ r # s /\ req[r].id \in UserIds /\ req[s].id = req[r].id
        /\ Answered(r, 200) /\ req[r].op = "delete" /\ ~flags[r].afterDel
        /\ Answered(s, 404) /\ req[s].op = "delete" /\ ~flags[s].afterDel /\ Ok(s)
        /\ flags[r].atCall = "updated"
====
